---- MODULE Spec2Model ----
(***************************************************************************)
(* The Yk PT packet parser (src/decode/ykpt/packet_parser).                *)
(*                                                                         *)
(* Bytes are integers 0..255.  A usize / u64 value is its eight bytes in   *)
(* little-endian order (index 1 is bits 7..0), so that the masks of        *)
(* TargetIP::decompress select whole bytes.  An Option is a sequence of    *)
(* length 0 (None) or 1 (Some).  A String is the sequence of its character *)
(* codes.  deku reads fields most-significant bit first within a byte and  *)
(* reports any failed magic, assertion, enum id or short read as an Err,   *)
(* which parse_kind turns into None.                                       *)
(***************************************************************************)
EXTENDS Integers, Sequences, FiniteSets, TLC

\* ---------------------------------------------------------------- bounds
MaxTail == 2
MaxPulls == 8

\* --------------------------------------------------------------- helpers
None == << >>
Some(v) == << v >>

Take(s, n) == SubSeq(s, 1, n)
Drop(s, n) == SubSeq(s, n + 1, Len(s))

Min(a, b) == IF a < b THEN a ELSE b

\* usize 0
Zero == <<0, 0, 0, 0, 0, 0, 0, 0>>

\* ------------------------------------------------------------ packets.rs
PacketKind ==
  {"PSB", "CBR", "PSBEND", "PAD", "MODE", "TIPPGE", "TIPPGD",
   "ShortTNT", "LongTNT", "TIP", "FUP", "CYC"}

\* needs_prev_tip forgetting IPBytes 010
needs_prev_tip_no010(val) == val \in {1, 4}

\* IPBytes::needs_prev_tip
needs_prev_tip(val) == val \in {1, 2, 4}

\* The width in bytes of the TargetIP variant deku selects for an IPBytes
\* value; -1 when no variant has that id.
TargetIP_width(ip_bytes_val) ==
  CASE ip_bytes_val = 0 -> 0
    [] ip_bytes_val = 1 -> 2
    [] ip_bytes_val = 2 -> 4
    [] ip_bytes_val \in {3, 4} -> 6
    [] ip_bytes_val = 6 -> 8
    [] OTHER -> -1

\* The result of a codec: Err, or Ok with the bytes consumed and the fields.
ReadErr == [ok |-> FALSE, len |-> 0, ip_bytes |-> 0, target_ip |-> << >>]
ReadOk(n, ipb, tip) == [ok |-> TRUE, len |-> n, ip_bytes |-> ipb, target_ip |-> tip]

\* deku magic: the input starts with the magic bytes
HasMagic(b, magic) == Len(b) >= Len(magic) /\ Take(b, Len(magic)) = magic

PSBMagic == <<2, 130, 2, 130, 2, 130, 2, 130, 2, 130, 2, 130, 2, 130, 2, 130>>

\* PSBPacket::read comparing only the first two bytes of the magic
PSBPacket_read_short(b) ==
  IF HasMagic(b, <<2, 130>>) /\ Len(b) >= 16 THEN ReadOk(16, 0, << >>) ELSE ReadErr

PSBPacket_read(b) ==
  IF HasMagic(b, PSBMagic) THEN ReadOk(16, 0, << >>) ELSE ReadErr

CBRPacket_read(b) ==
  IF HasMagic(b, <<2, 3>>) /\ Len(b) >= 4 THEN ReadOk(4, 0, << >>) ELSE ReadErr

PSBENDPacket_read(b) ==
  IF HasMagic(b, <<2, 35>>) THEN ReadOk(2, 0, << >>) ELSE ReadErr

PADPacket_read(b) ==
  IF HasMagic(b, <<0>>) THEN ReadOk(1, 0, << >>) ELSE ReadErr

MODEPacket_read(b) ==
  IF HasMagic(b, <<153>>) /\ Len(b) >= 2 THEN ReadOk(2, 0, << >>) ELSE ReadErr

\* A TIP-family codec that takes what is left of a payload cut short
TIPFamily_read_partial(b, opcode) ==
  IF Len(b) < 1 THEN ReadErr
  ELSE LET ip_bytes == b[1] \div 32
           magic == b[1] % 32
           w == TargetIP_width(ip_bytes)
       IN IF magic # opcode THEN ReadErr
          ELSE IF w < 0 THEN ReadErr
          ELSE ReadOk(Min(1 + w, Len(b)), ip_bytes,
                      SubSeq(b, 2, Min(1 + w, Len(b))))

\* TIPPacket, TIPPGEPacket, TIPPGDPacket and FUPPacket differ only in the
\* 5-bit opcode asserted on `magic`.
TIPFamily_read(b, opcode) ==
  IF Len(b) < 1 THEN ReadErr
  ELSE LET ip_bytes == b[1] \div 32
           magic == b[1] % 32
           w == TargetIP_width(ip_bytes)
       IN IF magic # opcode THEN ReadErr
          ELSE IF w < 0 THEN ReadErr
          ELSE IF Len(b) < 1 + w THEN ReadErr
          ELSE ReadOk(1 + w, ip_bytes, SubSeq(b, 2, 1 + w))

TIPPGEPacket_read(b) == TIPFamily_read(b, 17)
TIPPacket_read(b) == TIPFamily_read(b, 13)
TIPPGDPacket_read(b) == TIPFamily_read(b, 1)
FUPPacket_read(b) == TIPFamily_read(b, 29)

\* ShortTNTPacket::read without the assertion on `branches`
ShortTNTPacket_read_nostop(b) ==
  IF Len(b) < 1 THEN ReadErr
  ELSE IF b[1] % 2 = 0 THEN ReadOk(1, 0, << >>) ELSE ReadErr

ShortTNTPacket_read(b) ==
  IF Len(b) < 1 THEN ReadErr
  ELSE LET branches == b[1] \div 2
           magic == b[1] % 2
       IN IF branches # 1 /\ magic = 0 THEN ReadOk(1, 0, << >>) ELSE ReadErr

LongTNTPacket_read(b) ==
  IF HasMagic(b, <<2, 163>>) /\ Len(b) >= 8 THEN ReadOk(8, 0, << >>) ELSE ReadErr

\* The number of elements `until` reads from b: up to and including the
\* first whose low bit is 0; -1 if the input ends first.
RECURSIVE CYC_extended(_)
CYC_extended(b) ==
  IF Len(b) = 0 THEN -1
  ELSE IF b[1] % 2 # 1 THEN 1
  ELSE LET n == CYC_extended(Tail(b))
       IN IF n < 0 THEN -1 ELSE n + 1

\* CYCPacket::read never reading the extended bytes
CYCPacket_read_noext(b) ==
  IF Len(b) < 1 THEN ReadErr
  ELSE IF b[1] % 4 # 3 THEN ReadErr
  ELSE ReadOk(1, 0, << >>)

CYCPacket_read(b) ==
  IF Len(b) < 1 THEN ReadErr
  ELSE LET exp == (b[1] \div 4) % 2
           magic == b[1] % 4
       IN IF magic # 3 THEN ReadErr
          ELSE IF exp = 1
               THEN LET n == CYC_extended(Tail(b))
                    IN IF n < 0 THEN ReadErr ELSE ReadOk(1 + n, 0, << >>)
               ELSE ReadOk(1, 0, << >>)

\* a & b and a | b on bytes, bit i upwards
RECURSIVE and8(_, _, _)
and8(a, b, i) ==
  IF i = 8 THEN 0
  ELSE ((a \div (2 ^ i)) % 2) * ((b \div (2 ^ i)) % 2) * (2 ^ i) + and8(a, b, i + 1)

RECURSIVE or8(_, _, _)
or8(a, b, i) ==
  IF i = 8 THEN 0
  ELSE (IF (a \div (2 ^ i)) % 2 = 1 \/ (b \div (2 ^ i)) % 2 = 1 THEN 2 ^ i ELSE 0)
       + or8(a, b, i + 1)

\* x & y and x | y on 64-bit values
And64(x, y) == [i \in 1..8 |-> and8(x[i], y[i], 0)]
Or64(x, y) == [i \in 1..8 |-> or8(x[i], y[i], 0)]

\* usize::try_from of a u16, u32 or u64 (48-bit values are held in a u64)
ZExt(v) == v \o [i \in 1..(8 - Len(v)) |-> 0]

\* u64::wrapping_sub(x, 1) for the one-bit value x
WrappingSub1(x) == IF x = 0 THEN [i \in 1..8 |-> 255] ELSE <<x - 1, 0, 0, 0, 0, 0, 0, 0>>

\* 0xffffffffffff0000, 0xffffffff00000000, 0xffff000000000000 and 1 << 47
MaskHi48 == <<0, 0, 255, 255, 255, 255, 255, 255>>
MaskHi32 == <<0, 0, 0, 0, 255, 255, 255, 255>>
MaskHi16 == <<0, 0, 0, 0, 0, 0, 255, 255>>
Bit47 == <<0, 0, 0, 0, 0, 128, 0, 0>>

\* TargetIP::decompress.  `panic` is set where the code panics, with the
\* macro or call that does ("todo", "unreachable", "unwrap"); otherwise ip is
\* the returned Option.
Panicked(why) == [panic |-> TRUE, why |-> why, ip |-> None]
Returned(o) == [panic |-> FALSE, why |-> "", ip |-> o]

\* the 0b001 arm keeping only bytes 63..=32 of prev_tip
decompress_001_mask32(v, prev_tip) == Or64(And64(prev_tip, MaskHi32), ZExt(v))

\* the 0b001 arm: bytes 63..=16 from prev_tip, 15..=0 from the packet
decompress_001(v, prev_tip) == Or64(And64(prev_tip, MaskHi48), ZExt(v))

\* the 0b010 arm: bytes 63..=32 from prev_tip, 31..=0 from the packet
decompress_010(v, prev_tip) == Or64(And64(prev_tip, MaskHi32), ZExt(v))

\* bit 47 of v
b47(v) == and8(v[6], Bit47[6], 0) \div 128

\* the 0b011 arm without the extension of bit 47
decompress_011_zext(v) == Or64(And64(Zero, MaskHi16), ZExt(v))

\* the 0b011 arm: bits 47..=0 from the packet, bit 47 copied above them
decompress_011(v) ==
  Or64(And64(WrappingSub1(1 - b47(ZExt(v))), MaskHi16), ZExt(v))

\* the 0b110 arm dropping the top two bytes
decompress_110_trunc(v) == And64(ZExt(v), <<255, 255, 255, 255, 255, 255, 0, 0>>)

\* the 0b110 arm: the uncompressed IP
decompress_110(v) == ZExt(v)

decompress(target_ip, ip_bytes, prev_tip) ==
  CASE ip_bytes = 0 -> Returned(None)
    [] ip_bytes = 1 ->
         IF Len(target_ip) # 2 THEN Panicked("unreachable")
         ELSE IF prev_tip = None THEN Panicked("unwrap")
         ELSE Returned(Some(decompress_001(target_ip, prev_tip[1])))
    [] ip_bytes = 2 ->
         IF Len(target_ip) # 4 THEN Panicked("unreachable")
         ELSE IF prev_tip = None THEN Panicked("unwrap")
         ELSE Returned(Some(decompress_010(target_ip, prev_tip[1])))
    [] ip_bytes = 3 ->
         IF Len(target_ip) # 6 THEN Panicked("unreachable")
         ELSE Returned(Some(decompress_011(target_ip)))
    [] ip_bytes = 4 -> Panicked("todo")
    [] ip_bytes = 6 ->
         IF Len(target_ip) # 8 THEN Panicked("unreachable")
         ELSE Returned(Some(decompress_110(target_ip)))
    [] OTHER -> Panicked("unreachable")

\* A Packet: its kind, the fields of a TIP-family packet and the cached
\* previous TIP.
Packet(k, r, prev) ==
  [kind |-> k, ip_bytes |-> r.ip_bytes, target_ip |-> r.target_ip, prev_tip |-> prev]

\* Packet::kind
kind(pkt) == pkt.kind

\* Packet::target_ip
target_ip(pkt) ==
  IF pkt.kind \in {"TIPPGE", "TIPPGD", "TIP", "FUP"}
  THEN decompress(pkt.target_ip, pkt.ip_bytes, pkt.prev_tip)
  ELSE Returned(None)

\* ---------------------------------------------------------------- mod.rs
PacketParserState == {"Init", "Normal", "PSBPlus"}

\* valid_packets admitting PSBEND and CBR in Normal too
valid_packets_psbplus(self) ==
  CASE self = "Init" -> <<"PSB">>
    [] self = "Normal" ->
         <<"ShortTNT", "PAD", "FUP", "TIP", "CYC", "LongTNT", "PSB", "MODE",
           "TIPPGE", "TIPPGD", "CBR", "PSBEND">>
    [] self = "PSBPlus" -> <<"CBR", "PSBEND">>

\* valid_packets admitting PAD inside a PSB+ sequence
valid_packets_pad(self) ==
  CASE self = "Init" -> <<"PSB">>
    [] self = "Normal" ->
         <<"ShortTNT", "PAD", "FUP", "TIP", "CYC", "LongTNT", "PSB", "MODE",
           "TIPPGE", "TIPPGD">>
    [] self = "PSBPlus" -> <<"CBR", "PSBEND", "PAD">>

\* PacketParserState::valid_packets
valid_packets(self) ==
  CASE self = "Init" -> <<"PSB">>
    [] self = "Normal" ->
         <<"ShortTNT", "PAD", "FUP", "TIP", "CYC", "LongTNT", "PSB", "MODE",
           "TIPPGE", "TIPPGD">>
    [] self = "PSBPlus" -> <<"CBR", "PSBEND">>

\* transition entering Normal right after the PSB, without a PSB+ sequence
transition_skip(self, pkt_kind) ==
  CASE self = "Init" /\ pkt_kind = "PSB" -> "Normal"
    [] self = "Normal" /\ pkt_kind = "PSB" -> "PSBPlus"
    [] self = "PSBPlus" /\ pkt_kind = "PSBEND" -> "Normal"
    [] OTHER -> self

\* transition without the arm for a PSB met in Normal
transition_noresync(self, pkt_kind) ==
  CASE self = "Init" /\ pkt_kind = "PSB" -> "PSBPlus"
    [] self = "PSBPlus" /\ pkt_kind = "PSBEND" -> "Normal"
    [] OTHER -> self

\* PacketParserState::transition
transition(self, pkt_kind) ==
  CASE self = "Init" /\ pkt_kind = "PSB" -> "PSBPlus"
    [] self = "Normal" /\ pkt_kind = "PSB" -> "PSBPlus"
    [] self = "PSBPlus" /\ pkt_kind = "PSBEND" -> "Normal"
    [] OTHER -> self

\* read_to_packet!
read_to_packet(k, r) == Packet(k, r, None)

\* read_to_packet_tip! caching the initial prev_tip instead of the current one
read_to_packet_tip_stale(k, r, prev_tip) ==
  IF needs_prev_tip(r.ip_bytes)
  THEN Packet(k, r, Some(Zero))
  ELSE Packet(k, r, None)

\* read_to_packet_tip!
read_to_packet_tip(k, r, prev_tip) ==
  IF needs_prev_tip(r.ip_bytes)
  THEN Packet(k, r, Some(prev_tip))
  ELSE Packet(k, r, None)

\* <$packet>::read for each kind
read(k, b) ==
  CASE k = "PSB" -> PSBPacket_read(b)
    [] k = "CBR" -> CBRPacket_read(b)
    [] k = "PSBEND" -> PSBENDPacket_read(b)
    [] k = "PAD" -> PADPacket_read(b)
    [] k = "MODE" -> MODEPacket_read(b)
    [] k = "TIPPGE" -> TIPPGEPacket_read(b)
    [] k = "TIPPGD" -> TIPPGDPacket_read(b)
    [] k = "ShortTNT" -> ShortTNTPacket_read(b)
    [] k = "LongTNT" -> LongTNTPacket_read(b)
    [] k = "TIP" -> TIPPacket_read(b)
    [] k = "FUP" -> FUPPacket_read(b)
    [] k = "CYC" -> CYCPacket_read(b)

NoPacket == Packet("PAD", ReadErr, None)

\* parse_kind wrapping the packet without moving self.bytes
parse_res_stay(b, prev_tip, k, r) ==
  IF r.ok
  THEN [some |-> TRUE,
        bytes |-> b,
        pkt |-> IF k \in {"TIPPGE", "TIPPGD", "TIP", "FUP"}
                THEN read_to_packet_tip(k, r, prev_tip)
                ELSE read_to_packet(k, r)]
  ELSE [some |-> FALSE, bytes |-> b, pkt |-> NoPacket]

\* parse_kind stepping over the first byte when the codec does not match
parse_res_skip(b, prev_tip, k, r) ==
  IF r.ok
  THEN [some |-> TRUE,
        bytes |-> Drop(b, r.len),
        pkt |-> IF k \in {"TIPPGE", "TIPPGD", "TIP", "FUP"}
                THEN read_to_packet_tip(k, r, prev_tip)
                ELSE read_to_packet(k, r)]
  ELSE [some |-> FALSE, bytes |-> Drop(b, Min(1, Len(b))), pkt |-> NoPacket]

\* PacketParser::parse_kind, given the result r of the codec: on Ok the
\* packet is wrapped and self.bytes becomes the rest; on Err self.bytes is
\* untouched.
parse_res(b, prev_tip, k, r) ==
  IF r.ok
  THEN [some |-> TRUE,
        bytes |-> Drop(b, r.len),
        pkt |-> IF k \in {"TIPPGE", "TIPPGD", "TIP", "FUP"}
                THEN read_to_packet_tip(k, r, prev_tip)
                ELSE read_to_packet(k, r)]
  ELSE [some |-> FALSE, bytes |-> b, pkt |-> NoPacket]

\* PacketParser::parse_kind: Some(pkt) and the new self.bytes, or None
parse_kind(b, prev_tip, k) == parse_res(b, prev_tip, k, read(k, b))

\* `{:08b}` of a byte: eight characters '0' (48) or '1' (49), high bit first
Binary8(byte) == [i \in 1..8 |-> 48 + ((byte \div (2 ^ (8 - i))) % 2)]

\* Vec<String>::join
RECURSIVE join(_, _)
join(vals, sep) ==
  IF Len(vals) = 0 THEN << >>
  ELSE IF Len(vals) = 1 THEN vals[1]
  ELSE vals[1] \o sep \o join(Tail(vals), sep)

\* byte_stream_str pushing the marker also when exactly n bytes are left
byte_stream_vals_ge(b, n) ==
  IF Len(b) >= n
  THEN Append([i \in 1..n |-> Binary8(b[i])], <<46, 46, 46>>)
  ELSE [i \in 1..n |-> Binary8(b[i])]

\* the strings byte_stream_str pushes to vals for the first n bytes
byte_stream_vals(b, n) ==
  IF Len(b) > n
  THEN Append([i \in 1..n |-> Binary8(b[i])], <<46, 46, 46>>)
  ELSE [i \in 1..n |-> Binary8(b[i])]

\* PacketParser::byte_stream_str
byte_stream_str(b, nbytes, sep) ==
  join(byte_stream_vals(b, Min(nbytes, Len(b))), sep)

NoError == [state |-> "Init", dump |-> << >>]

RECURSIVE parse_state_from(_, _, _, _)

\* The body of the loop of parse_state for the i-th valid kind k, given the
\* result r of parse_kind.
parse_state_step(st, prev_tip, i, k, r) ==
  IF r.some
  THEN [ok |-> TRUE, bytes |-> r.bytes,
        state |-> IF k = "PSBEND" THEN "Normal" ELSE st,
        pkt |-> r.pkt, err |-> NoError]
  ELSE parse_state_from(r.bytes, st, prev_tip, i + 1)

\* PacketParser::parse_state, from the i-th valid kind on: Ok(pkt) with the
\* new bytes and state, or the TraceParseError.
parse_state_from(b, st, prev_tip, i) ==
  IF i > Len(valid_packets(st))
  THEN [ok |-> FALSE, bytes |-> b, state |-> st, pkt |-> NoPacket,
        err |-> [state |-> st, dump |-> byte_stream_str(b, 8, <<44, 32>>)]]
  ELSE parse_state_step(st, prev_tip, i, valid_packets(st)[i],
                        parse_kind(b, prev_tip, valid_packets(st)[i]))

parse_state(b, st, prev_tip) == parse_state_from(b, st, prev_tip, 1)

\* parse_packet clearing prev_tip when the packet has no target IP
parse_packet_clear(prev_tip, r, t) ==
  IF t.panic
  THEN [outcome |-> "abort", bytes |-> r.bytes, state |-> r.state,
        prev_tip |-> prev_tip, pkt |-> NoPacket, ip |-> None, err |-> NoError]
  ELSE [outcome |-> "packet", bytes |-> r.bytes,
        state |-> transition(r.state, kind(r.pkt)),
        prev_tip |-> IF t.ip # None THEN t.ip[1] ELSE Zero,
        pkt |-> r.pkt, ip |-> t.ip, err |-> NoError]

\* PacketParser::parse_packet after parse_state returned Ok (r), given the
\* result t of pkt.target_ip(): a panic there leaves the parser as
\* parse_state left it; otherwise the TIP is cached and the state moves.
parse_packet_ok(prev_tip, r, t) ==
  IF t.panic
  THEN [outcome |-> "abort", bytes |-> r.bytes, state |-> r.state,
        prev_tip |-> prev_tip, pkt |-> NoPacket, ip |-> None, err |-> NoError]
  ELSE [outcome |-> "packet", bytes |-> r.bytes,
        state |-> transition(r.state, kind(r.pkt)),
        prev_tip |-> IF t.ip # None THEN t.ip[1] ELSE prev_tip,
        pkt |-> r.pkt, ip |-> t.ip, err |-> NoError]

\* PacketParser::parse_packet, given the result r of parse_state
parse_packet_res(prev_tip, r) ==
  IF ~r.ok
  THEN [outcome |-> "error", bytes |-> r.bytes, state |-> r.state,
        prev_tip |-> prev_tip, pkt |-> NoPacket, ip |-> None, err |-> r.err]
  ELSE parse_packet_ok(prev_tip, r, target_ip(r.pkt))

\* PacketParser::parse_packet: the outcome ("packet", "error", or "abort"
\* when target_ip panics) and the fields of the parser afterwards.
parse_packet(b, st, prev_tip) ==
  parse_packet_res(prev_tip, parse_state(b, st, prev_tip))

\* next ending the stream one byte early
next_early(b, st, prev_tip) ==
  IF Len(b) > 1
  THEN parse_packet(b, st, prev_tip)
  ELSE [outcome |-> "eos", bytes |-> b, state |-> st, prev_tip |-> prev_tip,
        pkt |-> NoPacket, ip |-> None, err |-> NoError]

\* Iterator::next
next(b, st, prev_tip) ==
  IF Len(b) # 0
  THEN parse_packet(b, st, prev_tip)
  ELSE [outcome |-> "eos", bytes |-> b, state |-> st, prev_tip |-> prev_tip,
        pkt |-> NoPacket, ip |-> None, err |-> NoError]

\* ------------------------------------------------------------ the inputs
\* Byte strings the trace buffer is assembled from: whole packets of every
\* kind and IPBytes value, and single bytes that cut packets short.
Chunks ==
  { PSBMagic,
    <<2, 35>>,                                \* PSBEND
    <<2, 3, 64, 0>>,                          \* CBR
    <<0>>,                                    \* PAD
    <<4>>,                                    \* ShortTNT
    <<153, 0>>,                               \* MODE
    <<13>>,                                   \* TIP, IPBytes 000
    <<45, 204, 204>>,                         \* TIP, IPBytes 001
    <<81, 187, 187, 187, 187>>,               \* TIP.PGE, IPBytes 010
    <<109, 51, 68, 85, 102, 119, 136>>,       \* TIP, IPBytes 011, bit 47 set
    <<141, 1, 2, 3, 4, 5, 6>>,                \* TIP, IPBytes 100
    <<145, 1, 2, 3, 4, 5, 6>>,                \* TIP.PGE, IPBytes 100
    <<129, 1, 2, 3, 4, 5, 6>>,                \* TIP.PGD, IPBytes 100
    <<157, 1, 2, 3, 4, 5, 6>>,                \* FUP, IPBytes 100
    <<173>>,                                  \* TIP, IPBytes 101 (reserved)
    <<193, 1, 2, 3, 4, 5, 6, 7, 8>>,          \* TIP.PGD, IPBytes 110
    <<7, 3, 2>>,                              \* CYC, exp = 1
    <<3>>,                                    \* CYC, exp = 0
    <<2, 163, 0, 0, 0, 0, 0, 0>>,             \* LongTNT
    <<2>>,                                    \* first byte of PSB, PSBEND, CBR, LongTNT
    <<1>>,                                    \* TIP.PGD, IPBytes 000
    <<5>> }                                   \* no packet starts with 0x05

\* What precedes them: nothing, a proper prefix of the PSB magic, a PSB+
\* sequence, or a PSB+ sequence with a CBR followed by a TIP that sets
\* prev_tip.
Heads ==
  { << >>,
    <<2, 130>>,
    PSBMagic \o <<2, 35>>,
    PSBMagic \o <<2, 3, 64, 0>> \o <<2, 35>> \o <<109, 1, 2, 3, 4, 5, 6>> }

RECURSIVE Tails(_)
Tails(n) ==
  IF n = 0 THEN { << >> }
  ELSE LET shorter == Tails(n - 1)
       IN shorter \cup { c \o t : c \in Chunks, t \in shorter }

\* How many bytes a trace buffer may lack at its end.
Cuts == {0, 1}

\* The trace buffers: a head and a tail, possibly ending early.
Inputs ==
  { Take(h \o t, Len(h \o t) - n) :
      h \in Heads, t \in Tails(MaxTail), n \in Cuts }

\* 64-bit values: those of the tests of decompress, the extremes, and the
\* largest 48-bit value with bit 47 clear.
IPSamples ==
  { Zero,
    <<255, 255, 255, 255, 255, 255, 255, 255>>,
    <<254, 202, 173, 222, 254, 202, 175, 222>>,    \* 0xdeafcafedeadcafe
    <<153, 153, 166, 165, 164, 163, 162, 161>>,    \* 0xa1a2a3a4a5a69999
    <<153, 153, 153, 153, 204, 204, 204, 204>>,    \* 0xcccccccc99999999
    <<204, 204, 187, 187, 187, 187, 0, 0>>,        \* 0xcccc, 0xbbbbbbbb
    <<6, 5, 4, 3, 2, 1, 0, 0>>,                    \* 0x0000010203040506
    <<0, 0, 0, 0, 0, 128, 0, 0>>,                  \* 1 << 47
    <<51, 68, 85, 102, 119, 136, 0, 0>>,           \* 0x0000887766554433
    <<255, 255, 255, 255, 255, 127, 1, 128>> }

\* The arguments of a direct call of decompress: an IPBytes value, the
\* TargetIP variant of its width, and a previous TIP or none.
Calls ==
  { [ip_bytes |-> i,
     target_ip |-> Take(v, IF TargetIP_width(i) < 0 THEN 0 ELSE TargetIP_width(i)),
     prev_tip |-> p] :
      i \in 0..7, v \in IPSamples, p \in {None} \cup { Some(q) : q \in IPSamples } }

\* ------------------------------------------------------------- the state
VARIABLES
  bytes,      \* PacketParser.bytes: the input not yet parsed
  state,      \* PacketParser.state
  prev_tip,   \* PacketParser.prev_tip
  orig,       \* the slice PacketParser::new was given
  result,     \* what the last call of next returned: "none" before the first
  yielded,    \* the Ok items next has returned, in order
  error,      \* the TraceParseError of the last call, if it returned one
  pulls,      \* the number of calls of next
  call,       \* the arguments of a direct call of decompress, if one is made
  ret,        \* what that call returned, once it has
  before      \* the fields of the parser when the last call of next began

vars ==
  <<bytes, state, prev_tip, orig, result, yielded, error, pulls, call, ret, before>>

\* PacketParser::new over a trace buffer, or over an empty one next to a
\* direct call of decompress as the tests make it.
Init ==
  /\ \/ orig \in Inputs /\ call = None
     \/ orig = << >> /\ call \in { Some(c) : c \in Calls }
  /\ ret = None
  /\ before = [bytes |-> orig, state |-> "Init", prev_tip |-> Zero]
  /\ bytes = orig
  /\ state = "Init"
  /\ prev_tip = Zero
  /\ result = "none"
  /\ yielded = << >>
  /\ error = NoError
  /\ pulls = 0

\* What a call of next that returns r leaves behind.
Returns(r) ==
  /\ bytes' = r.bytes
  /\ state' = r.state
  /\ prev_tip' = r.prev_tip
  /\ result' = r.outcome
  /\ error' = r.err
  /\ yielded' = IF r.outcome = "packet"
                THEN Append(yielded,
                            [pkt |-> r.pkt, ip |-> r.ip,
                             len |-> Len(bytes) - Len(r.bytes)])
                ELSE yielded

\* A call of Iterator::next.  A panic ends the program.
Pull ==
  /\ result # "abort"
  /\ ret # None => ~ret[1].panic
  /\ pulls < MaxPulls
  /\ Returns(next(bytes, state, prev_tip))
  /\ pulls' = pulls + 1
  /\ before' = [bytes |-> bytes, state |-> state, prev_tip |-> prev_tip]
  /\ UNCHANGED <<orig, call, ret>>

\* TargetIP::decompress called directly.
Decompress ==
  /\ call # None
  /\ ret = None
  /\ ret' = Some(decompress(call[1].target_ip, call[1].ip_bytes, call[1].prev_tip))
  /\ UNCHANGED <<bytes, state, prev_tip, orig, result, yielded, error, pulls, call,
                 before>>

Next == Pull \/ Decompress

Spec == Init /\ [][Next]_vars

\* ------------------------------------------------------------ properties
TIPKinds == {"TIPPGE", "TIPPGD", "TIP", "FUP"}

\* the item the last successful call of next returned
LastYield == yielded[Len(yielded)]

\* the kinds of the items yielded so far
Kinds == [i \in 1..Len(yielded) |-> yielded[i].pkt.kind]

\* the transition table of the parser state machine
TransitionTable(s, k) ==
  IF k = "PSB" /\ s \in {"Init", "Normal"} THEN "PSBPlus"
  ELSE IF k = "PSBEND" /\ s = "PSBPlus" THEN "Normal"
  ELSE s

\* the kinds admissible in each state
Admissible(s) ==
  CASE s = "Init" -> {"PSB"}
    [] s = "PSBPlus" -> {"CBR", "PSBEND"}
    [] s = "Normal" -> {"ShortTNT", "PAD", "FUP", "TIP", "CYC", "LongTNT", "PSB",
                        "MODE", "TIPPGE", "TIPPGD"}

\* C1: a pull that yields a packet moves the state as the transition table
\* says (PSB in Init or Normal to PSBPlus, PSBEND in PSBPlus to Normal, any
\* other pair nowhere), and Init is never entered again once left.
C1_TransitionTable ==
  [][ /\ result' = "packet" =>
           state' = TransitionTable(state, LastYield'.pkt.kind)
      /\ state # "Init" => state' # "Init" ]_vars

\* all three arms of the table have fired: a PSB+ sequence ended and another
\* PSB was met in Normal
C1_Witness ==
  /\ state = "PSBPlus"
  /\ \E i \in 1..Len(yielded) : Kinds[i] = "PSBEND"

\* C2: every yielded packet has a kind admissible in the state the pull
\* started in, and between a PSB and the next PSBEND (inclusive) only CBR and
\* PSBEND packets are yielded.
C2_AdmissibleKinds ==
  /\ [][ result' = "packet" => LastYield'.pkt.kind \in Admissible(state) ]_vars
  /\ [](\A i \in 1..Len(yielded) : \A j \in (i + 1)..Len(yielded) :
          (Kinds[i] = "PSB" /\ \A m \in (i + 1)..(j - 1) : Kinds[m] # "PSBEND")
            => Kinds[j] \in {"CBR", "PSBEND"})

\* a PSB+ sequence with a CBR in it was parsed and a Normal packet followed
C2_Witness ==
  /\ Len(yielded) >= 4
  /\ Kinds[1] = "PSB" /\ Kinds[2] = "CBR" /\ Kinds[3] = "PSBEND"

AllZero(b) == \A i \in 1..Len(b) : b[i] = 0

\* C3: in Normal, with only 0x00 bytes left, every pull yields one PAD packet
\* for one byte.
C3_ZerosYieldPAD ==
  [][ (state = "Normal" /\ bytes # << >> /\ AllZero(bytes)) =>
        /\ result' = "packet"
        /\ LastYield'.pkt.kind = "PAD"
        /\ bytes' = Tail(bytes) ]_vars

\* no kind admissible in state s matches at the head of b
NoCodecMatches(s, b) == \A k \in Admissible(s) : ~read(k, b).ok

\* C4: when no admissible codec matches, the pull returns a parse error and
\* leaves the cursor, the state and prev_tip as they were; after an error
\* every pull returns that same error and yields nothing.
C4_ErrorIsSticky ==
  [][ /\ (bytes # << >> /\ NoCodecMatches(state, bytes)) => result' = "error"
      /\ result' = "error" =>
           /\ bytes # << >> /\ NoCodecMatches(state, bytes)
           /\ bytes' = bytes /\ state' = state /\ prev_tip' = prev_tip
      /\ result = "error" =>
           /\ result' = "error"
           /\ error' = error
           /\ yielded' = yielded ]_vars

\* the same error was returned twice, in Normal with a prev_tip that was set
C4_Witness ==
  /\ result = "error"
  /\ pulls >= Len(yielded) + 2
  /\ state = "Normal"
  /\ prev_tip # Zero

\* C5: a pull on non-empty input returns a packet or a TraceParseError and
\* never aborts, also for a TIP-family header with IPBytes = 100.
C5_NeverAborts == result # "abort"

\* C6: prev_tip starts at 0, becomes v when a packet with decompressed IP
\* Some(v) is yielded, and is kept by every yielded packet without one (any
\* kind outside the TIP family, or IPBytes = 000); a PSB does not reset it.
C6_PrevTip ==
  /\ [](pulls = 0 => prev_tip = Zero)
  /\ [][ result' = "packet" =>
           LET p == LastYield'.pkt
               ip == target_ip(p).ip
           IN /\ ip # None => prev_tip' = ip[1]
              /\ ip = None => prev_tip' = prev_tip
              /\ (p.kind \notin TIPKinds \/ p.ip_bytes = 0) => prev_tip' = prev_tip ]_vars

\* a PSB was yielded while prev_tip held an IP
C6_Witness ==
  /\ result = "packet"
  /\ Len(yielded) >= 1 /\ LastYield.pkt.kind = "PSB"
  /\ prev_tip # Zero

\* IPBytes 001 and 010: the low 2 or 4 bytes from the packet, the rest from p
Compressed(p, payload) == payload \o SubSeq(p, Len(payload) + 1, 8)

\* C7: a TIP-family packet with IPBytes 001 or 010 is decompressed against
\* the prev_tip of before its pull, which then becomes the decompressed IP; a
\* packet right after one with an IP is decompressed against that IP; and the
\* IP a yielded packet reports stays what it was when it was yielded.
C7_Snapshot ==
  /\ [][ (result' = "packet" /\ LastYield'.pkt.kind \in TIPKinds
            /\ LastYield'.pkt.ip_bytes \in {1, 2}) =>
           /\ LastYield'.pkt.prev_tip = Some(prev_tip)
           /\ LastYield'.ip = Some(Compressed(prev_tip, LastYield'.pkt.target_ip))
           /\ prev_tip' = Compressed(prev_tip, LastYield'.pkt.target_ip) ]_vars
  /\ [](\A i \in 1..Len(yielded) :
          /\ target_ip(yielded[i].pkt) = Returned(yielded[i].ip)
          /\ (i > 1 /\ yielded[i].pkt.ip_bytes \in {1, 2} /\ yielded[i - 1].ip # None)
               => yielded[i].pkt.prev_tip = yielded[i - 1].ip)

\* two compressed packets in a row, the second taking high bytes that are not
\* zero from the first
C7_Witness ==
  /\ Len(yielded) >= 2
  /\ LastYield.pkt.ip_bytes \in {1, 2}
  /\ yielded[Len(yielded) - 1].pkt.ip_bytes \in {1, 2}
  /\ LastYield.ip # None
  /\ LastYield.ip[1][6] # 0
  /\ prev_tip = LastYield.ip[1]

IsSuffix(s, t) == Len(s) <= Len(t) /\ s = Drop(t, Len(t) - Len(s))

RECURSIVE SumLen(_)
SumLen(ys) == IF Len(ys) = 0 THEN 0 ELSE ys[1].len + SumLen(Tail(ys))

\* C8: the remaining input is a suffix of the original buffer, never grows,
\* and the lengths consumed by the yielded packets add up to what is gone.
C8_Consumed ==
  /\ [](IsSuffix(bytes, orig) /\ SumLen(yielded) = Len(orig) - Len(bytes))
  /\ [][Len(bytes') <= Len(bytes)]_vars

\* C9: a pull returns end-of-stream exactly when the remaining input is
\* empty, whatever the state; over an empty buffer the first pull returns it
\* with no error; once returned it is returned by every later pull.
C9_EndOfStream ==
  /\ [][ pulls' # pulls =>
           /\ result' = "eos" <=> bytes = << >>
           /\ result = "eos" => result' = "eos" ]_vars
  /\ []((pulls = 1 /\ orig = << >>) => (result = "eos" /\ error = NoError))

\* end-of-stream was returned twice with the parser in PSBPlus
C9_Witness ==
  /\ result = "eos"
  /\ state = "PSBPlus"
  /\ pulls >= Len(yielded) + 2

\* the input starts with 02 82 repeated 8 times
StartsWithPSB(b) ==
  /\ Len(b) >= 16
  /\ \A i \in 1..16 : b[i] = IF i % 2 = 1 THEN 2 ELSE 130

\* C10: the first pull of a fresh parser yields a PSB, consumes 16 bytes and
\* leaves the state PSBPlus if the input starts with the PSB magic, and
\* returns a parse error reporting state Init for any other non-empty input.
C10_FirstPull ==
  pulls = 1 =>
    IF StartsWithPSB(orig)
    THEN /\ result = "packet"
         /\ Kinds = <<"PSB">>
         /\ bytes = Drop(orig, 16)
         /\ state = "PSBPlus"
    ELSE orig # << >> =>
           /\ result = "error"
           /\ error.state = "Init"
           /\ bytes = orig /\ state = "Init"

\* the first pull yielded a PSB and left input behind it
C10_Witness ==
  /\ pulls = 1
  /\ state = "PSBPlus"
  /\ Len(orig) > 16
  /\ Len(bytes) = Len(orig) - 16

\* C11: no ShortTNT packet is yielded for a byte 0x01 at the cursor, nor for
\* a byte whose seven high bits are 0000001 (0x02, 0x03); on these bytes the
\* ShortTNT codec does not match and consumes nothing.
C11_ShortTNTStopBit ==
  /\ (result = "packet" /\ LastYield.pkt.kind = "ShortTNT") =>
       before.bytes[1] \notin {1, 2, 3}
  /\ (bytes # << >> /\ bytes[1] \in {1, 2, 3}) =>
       /\ ~ShortTNTPacket_read(bytes).ok
       /\ ~parse_kind(bytes, prev_tip, "ShortTNT").some
       /\ parse_kind(bytes, prev_tip, "ShortTNT").bytes = bytes

\* in Normal, where ShortTNT is tried first, a pull met 0x01 and yielded the
\* TIP.PGD it encodes, leaving 0x02 at the cursor
C11_Witness ==
  /\ result = "packet"
  /\ before.state = "Normal"
  /\ before.bytes[1] = 1
  /\ LastYield.pkt.kind = "TIPPGD"
  /\ bytes # << >> /\ bytes[1] = 2

\* the index in b of the first byte after the header whose low bit is 0
HasTerminator(b) == \E j \in 2..Len(b) : b[j] % 2 = 0
Terminator(b) ==
  CHOOSE j \in 2..Len(b) : b[j] % 2 = 0 /\ \A i \in 2..(j - 1) : b[i] % 2 = 1

\* C12: a CYC header (low two bits 11) with exp = 0 is a packet of one byte;
\* with exp = 1 the packet runs up to and including the first following byte
\* whose low bit is 0; if the input ends before such a byte the CYC codec
\* does not match and nothing is consumed.
C12_CYCLength ==
  (pulls > 0 /\ before.state = "Normal" /\ before.bytes # << >>
     /\ before.bytes[1] % 4 = 3) =>
    IF (before.bytes[1] \div 4) % 2 = 0
    THEN /\ result = "packet" /\ LastYield.pkt.kind = "CYC"
         /\ bytes = Drop(before.bytes, 1)
    ELSE IF HasTerminator(before.bytes)
    THEN /\ result = "packet" /\ LastYield.pkt.kind = "CYC"
         /\ bytes = Drop(before.bytes, Terminator(before.bytes))
    ELSE /\ ~CYCPacket_read(before.bytes).ok
         /\ result = "error"
         /\ bytes = before.bytes

\* header with exp = 1, then 0x03, then 0x02: three bytes consumed, more left
C12_Witness ==
  /\ result = "packet"
  /\ LastYield.pkt.kind = "CYC"
  /\ Len(before.bytes) >= 3 /\ Take(before.bytes, 3) = <<7, 3, 2>>
  /\ Len(bytes) = Len(before.bytes) - 3
  /\ bytes # << >>

\* bit i (0 the lowest) of a little-endian byte string
Bit(x, i) == (x[(i \div 8) + 1] \div (2 ^ (i % 8))) % 2

\* r has the low n bits of v and the bits above them of p
LowFromHighFrom(r, n, v, p) ==
  /\ Len(r) = 8
  /\ \A i \in 0..63 : Bit(r, i) = IF i < n THEN Bit(v, i) ELSE Bit(p, i)

\* C13: with IPBytes 001 (010) decompression returns Some of the value whose
\* low 16 (32) bits are the payload and whose higher bits are those of
\* prev_tip, for every prev_tip and payload: in direct calls and in the
\* packets the parser yields.
C13_CompressedIP ==
  /\ (ret # None /\ call[1].ip_bytes \in {1, 2} /\ call[1].prev_tip # None) =>
       /\ ~ret[1].panic
       /\ ret[1].ip # None
       /\ LowFromHighFrom(ret[1].ip[1], 16 * call[1].ip_bytes,
                          call[1].target_ip, call[1].prev_tip[1])
  /\ \A n \in 1..Len(yielded) :
       yielded[n].pkt.ip_bytes \in {1, 2} =>
         /\ yielded[n].ip # None
         /\ LowFromHighFrom(yielded[n].ip[1], 16 * yielded[n].pkt.ip_bytes,
                            yielded[n].pkt.target_ip, yielded[n].pkt.prev_tip[1])

\* the call of tests::ipbytes_decompress_001 has returned what it asserts
C13_Witness ==
  /\ ret # None
  /\ call[1].ip_bytes = 1
  /\ call[1].target_ip = <<204, 204>>
  /\ call[1].prev_tip = Some(<<153, 153, 166, 165, 164, 163, 162, 161>>)
  /\ ret[1].ip = Some(<<204, 204, 166, 165, 164, 163, 162, 161>>)

\* r is the 48-bit v sign-extended on bit 47
SignExtended48(r, v) ==
  /\ Len(r) = 8
  /\ \A i \in 0..63 : Bit(r, i) = IF i < 48 THEN Bit(v, i) ELSE Bit(v, 47)

\* C14: with IPBytes 011 decompression returns Some of the value whose low
\* 48 bits are the payload and whose bits 63..48 all equal bit 47 of the
\* payload, whatever prev_tip is (absent included): in direct calls and in
\* the packets the parser yields.
C14_SignExtendedIP ==
  /\ (ret # None /\ call[1].ip_bytes = 3) =>
       /\ ~ret[1].panic
       /\ ret[1].ip # None
       /\ SignExtended48(ret[1].ip[1], call[1].target_ip)
  /\ \A n \in 1..Len(yielded) :
       yielded[n].pkt.ip_bytes = 3 =>
         /\ yielded[n].ip # None
         /\ SignExtended48(yielded[n].ip[1], yielded[n].pkt.target_ip)

\* the second call of tests::ipbytes_decompress_011 has returned what it
\* asserts
C14_Witness ==
  /\ ret # None
  /\ call[1].ip_bytes = 3
  /\ call[1].target_ip = <<0, 0, 0, 0, 0, 128>>
  /\ call[1].prev_tip = None
  /\ ret[1].ip = Some(<<0, 0, 0, 0, 0, 128, 255, 255>>)

\* C15: with IPBytes 000 decompression returns None for every prev_tip, so a
\* TIP-family packet with IPBytes 000 is yielded without an IP and leaves
\* the parser's prev_tip as it was; with IPBytes 110 decompression returns
\* the 64-bit payload itself, for every prev_tip.
C15_OutOfContextAndFullIP ==
  /\ (ret # None /\ call[1].ip_bytes = 0) => ret[1] = Returned(None)
  /\ (ret # None /\ call[1].ip_bytes = 6) =>
       ret[1] = Returned(Some(call[1].target_ip))
  /\ (result = "packet" /\ LastYield.pkt.kind \in TIPKinds
        /\ LastYield.pkt.ip_bytes = 0) =>
       /\ LastYield.ip = None
       /\ prev_tip = before.prev_tip
  /\ \A n \in 1..Len(yielded) :
       yielded[n].pkt.ip_bytes = 6 =>
         /\ Len(yielded[n].pkt.target_ip) = 8
         /\ yielded[n].ip = Some(yielded[n].pkt.target_ip)

\* a TIP.PGD with IPBytes 110 was yielded with its payload as IP, and the
\* TIP.PGD with IPBytes 000 after it left that IP in prev_tip
C15_Witness ==
  /\ result = "packet"
  /\ Len(yielded) >= 2
  /\ LastYield.pkt.kind = "TIPPGD" /\ LastYield.pkt.ip_bytes = 0
  /\ before.bytes = <<1>>
  /\ yielded[Len(yielded) - 1].pkt.ip_bytes = 6
  /\ yielded[Len(yielded) - 1].ip = Some(<<1, 2, 3, 4, 5, 6, 7, 8>>)
  /\ prev_tip = <<1, 2, 3, 4, 5, 6, 7, 8>>

\* the kinds valid_packets admits in Normal, PSB apart
NormalKinds ==
  {"TIPPGE", "ShortTNT", "LongTNT", "TIPPGD", "TIP", "FUP", "CYC", "MODE", "PAD"}

\* C16: the first packet yielded is a PSB; a kind of state Normal is yielded
\* only after a PSB and a later PSBEND were; and every PSBEND yielded follows
\* a PSB with nothing but CBR packets between the two.
C16_YieldOrder ==
  /\ Len(Kinds) >= 1 => Kinds[1] = "PSB"
  /\ \A n \in 1..Len(Kinds) :
       Kinds[n] \in NormalKinds =>
         \E i \in 1..(n - 1) : \E j \in (i + 1)..(n - 1) :
           Kinds[i] = "PSB" /\ Kinds[j] = "PSBEND"
  /\ \A n \in 1..Len(Kinds) :
       Kinds[n] = "PSBEND" =>
         \E i \in 1..(n - 1) :
           /\ Kinds[i] = "PSB"
           /\ \A m \in (i + 1)..(n - 1) : Kinds[m] = "CBR"

\* a PSB+ sequence with a CBR, a TIP, and a second PSB+ sequence
C16_Witness == Kinds = <<"PSB", "CBR", "PSBEND", "TIP", "PSB", "PSBEND">>

\* the input starts with the framing of a PSBEND or of a CBR
PSBPlusFraming(b) == HasMagic(b, <<2, 35>>) \/ HasMagic(b, <<2, 3>>)

\* C17: in Normal, on input that starts with 02 23 (PSBEND) or 02 03 (CBR),
\* no admissible codec matches, and the pull returns a parse error that
\* reports state Normal and leaves the cursor where it was.
C17_PSBPlusKindsInNormal ==
  /\ (state = "Normal" /\ PSBPlusFraming(bytes)) =>
       NoCodecMatches("Normal", bytes)
  /\ (pulls > 0 /\ before.state = "Normal" /\ PSBPlusFraming(before.bytes)) =>
       /\ result = "error"
       /\ error.state = "Normal"
       /\ state = "Normal"
       /\ bytes = before.bytes

\* a pull in Normal on a PSBEND, after a whole PSB+ sequence was yielded
C17_Witness ==
  /\ result = "error"
  /\ error.state = "Normal"
  /\ before.state = "Normal"
  /\ HasMagic(before.bytes, <<2, 35>>)
  /\ Kinds = <<"PSB", "PSBEND">>

\* the payload bytes of a TIP-family packet, by IPBytes
PayloadLen(ipb) ==
  CASE ipb = 0 -> 0
    [] ipb = 1 -> 2
    [] ipb = 2 -> 4
    [] ipb = 3 -> 6
    [] ipb = 4 -> 6
    [] ipb = 6 -> 8

\* the whole framed length of a packet of kind k (CYC apart, whose length
\* its extension bits decide)
FramedLen(k, ipb) ==
  CASE k = "PSB" -> 16
    [] k = "PSBEND" -> 2
    [] k = "CBR" -> 4
    [] k = "PAD" -> 1
    [] k = "MODE" -> 2
    [] k = "ShortTNT" -> 1
    [] k = "LongTNT" -> 8
    [] k \in TIPKinds -> 1 + PayloadLen(ipb)

\* the codec of kind k, when it matches b, consumes the framed length of k
\* and no more than b has; parse_kind leaves b alone when it does not match
CodecTakesFramedLen(k, b, r) ==
  /\ r.ok =>
       /\ r.ip_bytes \in {0, 1, 2, 3, 4, 6}
       /\ r.len = FramedLen(k, r.ip_bytes)
       /\ r.len <= Len(b)
       /\ parse_kind(b, Zero, k).bytes = Drop(b, r.len)
  /\ ~r.ok => parse_kind(b, Zero, k).bytes = b

\* k's framed length, read off the header when k is of the TIP family, is
\* more than b has
TooShortFor(k, b) ==
  IF k \in TIPKinds
  THEN /\ b # << >>
       /\ (b[1] \div 32) \in {0, 1, 2, 3, 4, 6}
       /\ Len(b) < 1 + PayloadLen(b[1] \div 32)
  ELSE Len(b) < FramedLen(k, 0)

\* C18: a pull that yields a packet moves the cursor by the framed length of
\* its kind (PSB 16, PSBEND 2, CBR 4, PAD 1, MODE 2, ShortTNT 1, LongTNT 8,
\* TIP family 1 + 0, 2, 4, 6, 6, 8 for IPBytes 000, 001, 010, 011, 100, 110),
\* every codec consumes that length when it matches, and a codec given fewer
\* bytes than that mismatches and consumes nothing.
C18_FramedLength ==
  /\ \A k \in PacketKind \ {"CYC"} :
       /\ CodecTakesFramedLen(k, bytes, read(k, bytes))
       /\ TooShortFor(k, bytes) => ~read(k, bytes).ok
  /\ \A n \in 1..Len(yielded) :
       yielded[n].pkt.kind # "CYC" =>
         yielded[n].len = FramedLen(yielded[n].pkt.kind, yielded[n].pkt.ip_bytes)
  /\ result = "packet" =>
       /\ LastYield.len <= Len(before.bytes)
       /\ bytes = Drop(before.bytes, LastYield.len)

\* after a TIP of 7 bytes was yielded, a TIP with IPBytes 001 that lacks its
\* last byte is refused
C18_Witness ==
  /\ result = "error"
  /\ before.state = "Normal"
  /\ bytes = <<45, 204>>
  /\ Len(yielded) >= 1
  /\ LastYield.pkt.kind = "TIP"
  /\ LastYield.len = 7

\* C19: whatever the state and the remaining input, at most one codec
\* admissible in the state matches, so that the order in which valid_packets
\* lists the kinds does not decide which packet is yielded.
C19_OneCodecMatches ==
  \A k1, k2 \in Admissible(state) :
    (read(k1, bytes).ok /\ read(k2, bytes).ok) => k1 = k2

\* what decompression needs of a TIP-family packet pkt built while the
\* parser's prev_tip was p
DecompressPreconditions(pkt, p) ==
  /\ pkt.ip_bytes \in {0, 1, 2, 3, 4, 6}
  /\ pkt.prev_tip = IF pkt.ip_bytes \in {1, 2, 4} THEN Some(p) ELSE None
  /\ Len(pkt.target_ip) = PayloadLen(pkt.ip_bytes)
  /\ target_ip(pkt).why \notin {"unwrap", "unreachable"}

\* C20: every TIP-family packet parse_kind builds carries Some(prev_tip)
\* exactly when its IPBytes is 001, 010 or 100, and a TargetIP of the width
\* of its IPBytes; a header with IPBytes 101 or 111 is matched by no
\* TIP-family codec; so decompression, in a pull, never unwraps a missing
\* prev_tip and never reaches an unreachable arm.
C20_DecompressPreconditions ==
  /\ \A k \in TIPKinds :
       /\ parse_kind(bytes, prev_tip, k).some =>
            DecompressPreconditions(parse_kind(bytes, prev_tip, k).pkt, prev_tip)
       /\ (bytes # << >> /\ (bytes[1] \div 32) \in {5, 7}) => ~read(k, bytes).ok
  /\ \A n \in 1..Len(yielded) :
       yielded[n].pkt.kind \in TIPKinds =>
         /\ yielded[n].pkt.ip_bytes \in {0, 1, 2, 3, 6}
         /\ yielded[n].pkt.prev_tip # None <=> yielded[n].pkt.ip_bytes \in {1, 2}
         /\ Len(yielded[n].pkt.target_ip) = PayloadLen(yielded[n].pkt.ip_bytes)
  /\ result = "abort" =>
       /\ parse_state(before.bytes, before.state, before.prev_tip).ok
       /\ target_ip(parse_state(before.bytes, before.state, before.prev_tip).pkt).why
            = "todo"

\* a TIP.PGE with IPBytes 010 was built with the prev_tip a TIP had set, and
\* a header with the reserved IPBytes 101 is next
C20_Witness ==
  /\ result = "packet"
  /\ LastYield.pkt.kind = "TIPPGE"
  /\ LastYield.pkt.ip_bytes = 2
  /\ before.prev_tip # Zero
  /\ LastYield.pkt.prev_tip = Some(before.prev_tip)
  /\ bytes = <<173>>

\* the last pull was the first one that did not yield a packet
Stopped == result \in {"eos", "error", "abort"} /\ pulls = Len(yielded) + 1

\* C21: every pull that yields a packet consumes at least one byte, so no
\* more packets are yielded than the input has bytes; every pull before the
\* first one that yields none yields a packet, so the first end-of-stream or
\* error comes at pull n + 1 at the latest, n the length of the input.
C21_Progress ==
  /\ \A n \in 1..Len(yielded) : yielded[n].len >= 1
  /\ result = "packet" => Len(bytes) < Len(before.bytes)
  /\ Len(yielded) <= Len(orig) - Len(bytes)
  /\ Len(yielded) <= Len(orig)
  /\ result = "packet" => pulls = Len(yielded)
  /\ Stopped => pulls <= Len(orig) + 1

\* the consumer met end-of-stream after four packets, two of one byte
C21_Witness ==
  /\ Stopped
  /\ result = "eos"
  /\ Len(yielded) = 4
  /\ yielded[3].len = 1
  /\ yielded[4].len = 1

\* the characters of d from position a to position z
Chars(d, a, z) == SubSeq(d, a, z)

\* d shows the first n bytes of b in order, each as eight binary digits,
\* high bit first, with ", " after each but the last thing shown
ShowsBytes(d, b, n) ==
  \A i \in 1..n :
    /\ \A j \in 1..8 : d[10 * (i - 1) + j] = 48 + ((b[i] \div (2 ^ (8 - j))) % 2)
    /\ Len(d) > 10 * (i - 1) + 8 => Chars(d, 10 * i - 1, 10 * i) = <<44, 32>>

\* d is the dump of b: min(8, Len(b)) bytes, then "..." iff b has more
IsDumpOf(d, b) ==
  /\ ShowsBytes(d, b, Min(8, Len(b)))
  /\ IF Len(b) > 8
     THEN /\ Len(d) = 10 * 8 + 3
          /\ Chars(d, 81, 83) = <<46, 46, 46>>
     ELSE Len(d) = 10 * Len(b) - 2

\* C22: a parse error carries the state the parser is in and a dump of the
\* first min(8, remaining) bytes at the cursor, in input order, that ends
\* with "..." exactly when more than 8 bytes remain.
C22_ErrorDump ==
  result = "error" =>
    /\ bytes # << >>
    /\ error.state = state
    /\ error.state = before.state
    /\ bytes = before.bytes
    /\ IsDumpOf(error.dump, bytes)

\* an error with exactly 8 bytes left: eight bytes shown and no marker
C22_Witness ==
  /\ result = "error"
  /\ Len(bytes) = 8
  /\ Len(error.dump) = 78
  /\ Chars(error.dump, 71, 78) = <<48, 48, 48, 48, 48, 48, 48, 48>>

====
